---------------------------- MODULE Spec2Model ----------------------------
(***************************************************************************)
(* A model of calc.py (PyDesk): the GNU Units query (units, uu), the list  *)
(* flattener (flatten_list) and the cellular-data helpers (days_in_month,  *)
(* data).                                                                  *)
(*                                                                         *)
(* Python values are tagged records:                                       *)
(*   None    [k |-> "None"]                                                *)
(*   int     [k |-> "int",   n |-> i]                                      *)
(*   float   [k |-> "float", m |-> mantissa, e |-> exponent]  (m * 10^e,   *)
(*           normalised); nan and inf are [k |-> "float_nan"] and          *)
(*           [k |-> "float_inf"]                                           *)
(*   str     [k |-> "str",   s |-> sequence of one-character strings]      *)
(*   tuple   [k |-> "tuple", items |-> sequence of values]                 *)
(*   list    [k |-> "list",  items |-> sequence of values]                 *)
(* and a call that ends with an exception is the outcome                   *)
(*           [k |-> "raise", exc |-> name of the exception].               *)
(***************************************************************************)
EXTENDS Integers, Sequences, FiniteSets, TLC

VARIABLES
    pc,       \* "idle": no call in progress; "done": a call has ended;
              \* "flat_head" / "flat_body": inside flatten_list's while loop
    op,       \* the function called: "none", "units", "uu", "days_in_month",
              \* "data", "flatten_list"
    arg,      \* the inputs of the call (arguments and what the environment answers)
    spawned,  \* the argv of every child process units() tried to start
    conv,     \* uu's local conv: what units() gave it
    ret,      \* what the call returned, or the exception it raised
    stdout,   \* the values print() wrote, in order
    loc       \* the locals of data() and flatten_list()

vars == <<pc, op, arg, spawned, conv, ret, stdout, loc>>

-----------------------------------------------------------------------------
(* Bounds of the model *)

\* oracle outputs are built from at most MaxLines lines
MaxLines == 3

-----------------------------------------------------------------------------
(* Python values *)

None == [k |-> "None"]
Str(s) == [k |-> "str", s |-> s]
PyInt(i) == [k |-> "int", n |-> i]
Float(m, e) == [k |-> "float", m |-> m, e |-> e]
Tuple(v) == [k |-> "tuple", items |-> v]
List(v) == [k |-> "list", items |-> v]
Raise(exc) == [k |-> "raise", exc |-> exc]

NoLocals == [k |-> "None"]

\* isinstance(x, tuple)
IsTuple(x) == x.k = "tuple"

\* s[i..j] (1-based, inclusive), empty when j < i
Sub(s, i, j) == IF j < i THEN <<>> ELSE SubSeq(s, i, j)

\* s[:n]: the first n items of s, or all of s when it has fewer
Prefix(s, n) == Sub(s, 1, IF Len(s) < n THEN Len(s) ELSE n)

\* does the literal lit occur in s at position i
StartsWith(s, i, lit) ==
    /\ i + Len(lit) - 1 <= Len(s)
    /\ \A j \in 1..Len(lit) : s[i + j - 1] = lit[j]

Digits == {"0", "1", "2", "3", "4", "5", "6", "7", "8", "9"}

DigitVal(c) ==
    CASE c = "0" -> 0 [] c = "1" -> 1 [] c = "2" -> 2 [] c = "3" -> 3
      [] c = "4" -> 4 [] c = "5" -> 5 [] c = "6" -> 6 [] c = "7" -> 7
      [] c = "8" -> 8 [] c = "9" -> 9

\* the value of a sequence of digits (0 for the empty sequence)
RECURSIVE DigitsVal(_)
DigitsVal(s) ==
    IF s = <<>> THEN 0
    ELSE 10 * DigitsVal(Sub(s, 1, Len(s) - 1)) + DigitVal(s[Len(s)])

AllDigits(s) == \A i \in 1..Len(s) : s[i] \in Digits

\* the least index >= i of s holding c, or Len(s) + 1
RECURSIVE IndexOf(_, _, _)
IndexOf(s, i, c) ==
    IF i > Len(s) THEN Len(s) + 1
    ELSE IF s[i] = c THEN i
    ELSE IndexOf(s, i + 1, c)

-----------------------------------------------------------------------------
(* float(str), for the strings the pattern's [\d\.\-\+e]+ groups can hold *)

\* m * 10^e with the trailing zeros of m moved into e; zero is 0 * 10^0
RECURSIVE Normalise(_, _)
Normalise(m, e) ==
    IF m = 0 THEN Float(0, 0)
    ELSE IF m % 10 = 0 THEN Normalise(m \div 10, e + 1)
    ELSE Float(m, e)

\* float(s): [sign] (digits [. [digits]] | . digits) [e [sign] digits],
\* anything else raises ValueError.  -0.0 is identified with 0.0 (they are ==).
PyFloat(s) ==
    LET signed == s # <<>> /\ s[1] \in {"+", "-"}
        neg    == signed /\ s[1] = "-"
        body   == IF signed THEN Sub(s, 2, Len(s)) ELSE s
        ePos   == IndexOf(body, 1, "e")
        hasExp == ePos <= Len(body)
        mant   == Sub(body, 1, ePos - 1)
        expo   == Sub(body, ePos + 1, Len(body))
        eSign  == expo # <<>> /\ expo[1] \in {"+", "-"}
        eNeg   == eSign /\ expo[1] = "-"
        eDig   == IF eSign THEN Sub(expo, 2, Len(expo)) ELSE expo
        dot    == IndexOf(mant, 1, ".")
        ip     == Sub(mant, 1, dot - 1)
        fp     == Sub(mant, dot + 1, Len(mant))
        okMant == AllDigits(ip) /\ AllDigits(fp) /\ Len(ip) + Len(fp) >= 1
        okExp  == ~hasExp \/ (eDig # <<>> /\ AllDigits(eDig))
        m      == DigitsVal(ip \o fp)
        ev     == IF hasExp THEN (IF eNeg THEN 0 - DigitsVal(eDig) ELSE DigitsVal(eDig))
                  ELSE 0
    IN  IF okMant /\ okExp
        THEN Normalise(IF neg THEN 0 - m ELSE m, ev - Len(fp))
        ELSE Raise("ValueError")

-----------------------------------------------------------------------------
(* gnu_units_output: the compiled pattern, and pattern.match(text) *)

Tab == "\t"
NL == "\n"

ReciNote == <<"r","e","c","i","p","r","o","c","a","l"," ",
              "c","o","n","v","e","r","s","i","o","n">>
ConformNote == <<"c","o","n","f","o","r","m","a","b","i","l","i","t","y"," ",
                 "e","r","r","o","r">>

\* the character class [\d\.\-\+e]
NumClass == Digits \cup {".", "-", "+", "e"}

\* the index after the longest run of characters of class cls that starts at i
RECURSIVE RunEnd(_, _, _)
RunEnd(s, i, cls) ==
    IF i <= Len(s) /\ s[i] \in cls THEN RunEnd(s, i + 1, cls) ELSE i

\* the index after the longest run of characters other than newline ([^\n]+)
RECURSIVE LineEnd(_, _)
LineEnd(s, i) ==
    IF i <= Len(s) /\ s[i] # NL THEN LineEnd(s, i + 1) ELSE i

\* match() found nothing (it returns None).  In a match, a group that took no
\* part in it is None.
NoMatch == [matched |-> FALSE]

\* The first alternative with its three optional items taken (TRUE) or
\* skipped (FALSE):  \t? (reciprocal conversion)? \n? \t\* (normal)\n\t/ (reciprocal)
\* [\d\.\-\+e]+ is greedy and the class holds no newline, so `normal` is the
\* whole run up to the newline and `reciprocal` the longest run.
TryConversion(s, tab, reci, nl) ==
    LET p1 == IF tab THEN 2 ELSE 1
        p2 == IF reci THEN p1 + Len(ReciNote) ELSE p1
        p3 == IF nl THEN p2 + 1 ELSE p2
        p4 == p3 + 3
        p5 == RunEnd(s, p4, NumClass)
        p6 == p5 + 4
        p7 == RunEnd(s, p6, NumClass)
    IN  IF /\ tab => StartsWith(s, 1, <<Tab>>)
           /\ reci => StartsWith(s, p1, ReciNote)
           /\ nl => StartsWith(s, p2, <<NL>>)
           /\ StartsWith(s, p3, <<Tab, "*", " ">>)
           /\ p5 > p4
           /\ StartsWith(s, p5, <<NL, Tab, "/", " ">>)
           /\ p7 > p6
        THEN [matched |-> TRUE,
              reci_note |-> IF reci THEN Str(ReciNote) ELSE None,
              normal |-> Str(Sub(s, p4, p5 - 1)),
              reciprocal |-> Str(Sub(s, p6, p7 - 1)),
              conform_note |-> None, in_unit |-> None, out_unit |-> None,
              end |-> p7 - 1]
        ELSE NoMatch

\* the order in which the backtracking matcher tries the optional items:
\* each is taken first and skipped only when the rest then fails
OptionalOrder ==
    << <<TRUE, TRUE, TRUE>>,  <<TRUE, TRUE, FALSE>>,  <<TRUE, FALSE, TRUE>>,
       <<TRUE, FALSE, FALSE>>, <<FALSE, TRUE, TRUE>>, <<FALSE, TRUE, FALSE>>,
       <<FALSE, FALSE, TRUE>>, <<FALSE, FALSE, FALSE>> >>

RECURSIVE FirstConversion(_, _)
FirstConversion(s, i) ==
    IF i > Len(OptionalOrder) THEN NoMatch
    ELSE LET o == OptionalOrder[i]
             t == TryConversion(s, o[1], o[2], o[3])
         IN  IF t.matched THEN t ELSE FirstConversion(s, i + 1)

\* the second alternative:
\* (conformability error)\n\t[\d\.\-\+e]+ (in_unit)\n\t[\d\.\-\+e]+ (out_unit)
TryConformability(s) ==
    LET p1 == Len(ConformNote) + 1
        p2 == p1 + 2
        p3 == RunEnd(s, p2, NumClass)
        p4 == p3 + 1
        p5 == LineEnd(s, p4)
        p6 == p5 + 2
        p7 == RunEnd(s, p6, NumClass)
        p8 == p7 + 1
        p9 == LineEnd(s, p8)
    IN  IF /\ StartsWith(s, 1, ConformNote)
           /\ StartsWith(s, p1, <<NL, Tab>>)
           /\ p3 > p2
           /\ StartsWith(s, p3, <<" ">>)
           /\ p5 > p4
           /\ StartsWith(s, p5, <<NL, Tab>>)
           /\ p7 > p6
           /\ StartsWith(s, p7, <<" ">>)
           /\ p9 > p8
        THEN [matched |-> TRUE,
              reci_note |-> None, normal |-> None, reciprocal |-> None,
              conform_note |-> Str(ConformNote),
              in_unit |-> Str(Sub(s, p4, p5 - 1)),
              out_unit |-> Str(Sub(s, p8, p9 - 1)),
              end |-> p9 - 1]
        ELSE NoMatch

\* gnu_units_output.match(text): anchored at the start of the text, not at its
\* end; the alternatives are tried in the order written
PatternMatch(s) ==
    LET c == FirstConversion(s, 1)
    IN  IF c.matched THEN c ELSE TryConformability(s)

\* the truth value of m.group(name): None and '' are false
Truthy(g) == g.k = "str" /\ g.s # <<>>

-----------------------------------------------------------------------------
(* units(v, a, b) and uu(v, a, b, silent) *)

gnu_units_executable == <<"g","u","n","i","t","s">>

DigitChar(d) ==
    CASE d = 0 -> "0" [] d = 1 -> "1" [] d = 2 -> "2" [] d = 3 -> "3"
      [] d = 4 -> "4" [] d = 5 -> "5" [] d = 6 -> "6" [] d = 7 -> "7"
      [] d = 8 -> "8" [] d = 9 -> "9"

\* str(i) for an int i >= 0, as f'{v}' formats it
RECURSIVE PyStrOfNat(_)
PyStrOfNat(i) ==
    IF i < 10 THEN <<DigitChar(i)>>
    ELSE PyStrOfNat(i \div 10) \o <<DigitChar(i % 10)>>

\* the argument list of the child process: [gnu_units_executable, f'{v}{a}', b]
Argv(v, a, b) == <<gnu_units_executable, PyStrOfNat(v) \o a, b>>

\* What the environment answers to subprocess.run(...).stdout.decode('utf-8'):
\* the process cannot be started (run raises), its output is not UTF-8
\* (decode raises), or the decoded text of its standard output.
Started(text) == [started |-> TRUE, err |-> "", text |-> text]
NotStarted(exc) == [started |-> FALSE, err |-> exc, text |-> <<>>]
NotDecoded == [started |-> TRUE, err |-> "UnicodeDecodeError", text |-> <<>>]

\* lines 168-171: the two floats, then the tuple with or without the note.
\* float(normal) is evaluated first, then float(reciprocal); a ValueError of
\* either leaves units().
ConversionResult(n, r, reci_note) ==
    IF n.k = "raise" THEN n
    ELSE IF r.k = "raise" THEN r
    ELSE IF Truthy(reci_note) THEN Tuple(<<n, r, reci_note>>)
    ELSE Tuple(<<n, r>>)

\* text without its final newline, as text.rstrip('\n') would leave a one-line text
DropFinalNewline(s) ==
    IF s # <<>> /\ s[Len(s)] = NL THEN Sub(s, 1, Len(s) - 1) ELSE s

\* InterpretMatch with the fallback trimmed: `return result.rstrip('\n')`
InterpretMatch_TrimsRawText(m, result) ==
    IF m.matched
    THEN IF Truthy(m.conform_note)
         THEN Tuple(<<m.conform_note, m.in_unit, m.out_unit>>)
         ELSE ConversionResult(PyFloat(m.normal.s), PyFloat(m.reciprocal.s), m.reci_note)
    ELSE Str(DropFinalNewline(result))

\* lines 164-172 of units(): what it returns for the match m of the text result
InterpretMatch(m, result) ==
    IF m.matched
    THEN IF Truthy(m.conform_note)
         THEN Tuple(<<m.conform_note, m.in_unit, m.out_unit>>)
         ELSE ConversionResult(PyFloat(m.normal.s), PyFloat(m.reciprocal.s), m.reci_note)
    ELSE Str(result)

\* the body of units() from the match on: lines 163-172
Interpret(result) == InterpretMatch(PatternMatch(result), result)

\* Units with the launch wrapped in `try: ... except OSError: result = ''`
Units_FoldsLaunchFailure(v, a, b, env) ==
    [spawned |-> <<Argv(v, a, b)>>,
     result  |-> IF ~env.started THEN Str(<<>>)
                 ELSE IF env.err # "" THEN Raise(env.err)
                 ELSE Interpret(env.text)]

\* units(v, a, b) when the environment answers env: the processes it tried to
\* start and its result (a value, or the exception that leaves it)
Units(v, a, b, env) ==
    [spawned |-> <<Argv(v, a, b)>>,
     result  |-> IF env.err # "" THEN Raise(env.err) ELSE Interpret(env.text)]

\* UuAfter without the test for a conformability result:
\* `if not isinstance(conv, tuple)`
UuAfter_ReturnsFirstOfAnyTuple(u, silent) ==
    IF u.result.k = "raise"
    THEN [spawned |-> u.spawned, conv |-> None, stdout |-> <<>>, ret |-> u.result]
    ELSE [spawned |-> u.spawned,
          conv    |-> u.result,
          stdout  |-> IF ~silent THEN <<u.result>> ELSE <<>>,
          ret     |-> IF ~IsTuple(u.result) THEN None ELSE u.result.items[1]]

\* UuAfter with the return inside the `if not silent:` block, so that a silent
\* call falls off the end of the function
UuAfter_SilentReturnsNothing(u, silent) ==
    IF u.result.k = "raise"
    THEN [spawned |-> u.spawned, conv |-> None, stdout |-> <<>>, ret |-> u.result]
    ELSE [spawned |-> u.spawned,
          conv    |-> u.result,
          stdout  |-> IF ~silent THEN <<u.result>> ELSE <<>>,
          ret     |-> IF silent \/ ~IsTuple(u.result)
                            \/ u.result.items[1] = Str(ConformNote)
                      THEN None
                      ELSE u.result.items[1]]

\* lines 186-190 of uu(), u being what the call of units() on line 185 did: an
\* exception of units() leaves uu() at once
UuAfter(u, silent) ==
    IF u.result.k = "raise"
    THEN [spawned |-> u.spawned, conv |-> None, stdout |-> <<>>, ret |-> u.result]
    ELSE [spawned |-> u.spawned,
          conv    |-> u.result,
          stdout  |-> IF ~silent THEN <<u.result>> ELSE <<>>,
          ret     |-> IF ~IsTuple(u.result) \/ u.result.items[1] = Str(ConformNote)
                      THEN None
                      ELSE u.result.items[1]]

\* uu(v, a, b, silent) when the environment answers env
Uu(v, a, b, silent, env) == UuAfter(Units(v, a, b, env), silent)

-----------------------------------------------------------------------------
(* The inputs of the unit-conversion calls *)

\* the lines the oracle's output is built from
Lines ==
    { <<>>,
      <<Tab, "*", " ", "2">>,
      <<Tab, "*", " ", "1", "e">>,
      <<Tab, "/", " ", "5", "e", "-", "1">>,
      <<Tab, "/", " ", "4", "x">>,
      <<Tab>> \o ReciNote,
      <<Tab>> \o ReciNote \o <<Tab, "*", " ", "+", "2", "0">>,
      ConformNote,
      <<Tab, "1", " ", "k", "g">>,
      <<Tab, "2", ".", "5", " ", "m", " ", "/", " ", "s">>,
      <<Tab, "1">>,
      <<"x">> }

RECURSIVE JoinLines(_)
JoinLines(ls) ==
    IF ls = <<>> THEN <<>>
    ELSE IF Len(ls) = 1 THEN ls[1]
    ELSE ls[1] \o <<NL>> \o JoinLines(Tail(ls))

\* every text of at most MaxLines lines, with or without a final newline
OracleTexts ==
    { JoinLines(ls) \o tail :
        ls \in UNION { [1..n -> Lines] : n \in 0..MaxLines },
        tail \in {<<>>, <<NL>>} }

OracleAnswers ==
    { Started(t) : t \in OracleTexts }
        \cup { NotStarted("FileNotFoundError"), NotStarted("PermissionError"),
               NotDecoded }

\* the (v, a, b) of the calls
Queries ==
    { [v |-> 1, a |-> <<"k","g">>, b |-> <<"m">>],
      [v |-> 12, a |-> <<"m">>, b |-> <<"f","t">>] }

-----------------------------------------------------------------------------
(* int(x) and str.lower(), as days_in_month uses them *)

\* float('nan') and float('inf')
FloatNaN == [k |-> "float_nan"]
FloatInf == [k |-> "float_inf"]

UpperLetters == <<"A","B","C","D","E","F","G","H","I","J","K","L","M",
                  "N","O","P","Q","R","S","T","U","V","W","X","Y","Z">>
LowerLetters == <<"a","b","c","d","e","f","g","h","i","j","k","l","m",
                  "n","o","p","q","r","s","t","u","v","w","x","y","z">>

LowerChar(c) ==
    IF \E i \in 1..Len(UpperLetters) : UpperLetters[i] = c
    THEN LowerLetters[CHOOSE i \in 1..Len(UpperLetters) : UpperLetters[i] = c]
    ELSE c

\* s.lower()
PyLower(s) == [i \in 1..Len(s) |-> LowerChar(s[i])]

Whitespace == {" ", Tab, NL}

\* s.strip()
RECURSIVE PyStrip(_)
PyStrip(s) ==
    IF s = <<>> THEN s
    ELSE IF s[1] \in Whitespace THEN PyStrip(Tail(s))
    ELSE IF s[Len(s)] \in Whitespace THEN PyStrip(Sub(s, 1, Len(s) - 1))
    ELSE s

RECURSIVE Pow10(_)
Pow10(n) == IF n = 0 THEN 1 ELSE 10 * Pow10(n - 1)

\* int(x): an int is itself, a float is truncated toward zero (nan raises
\* ValueError, inf OverflowError), a string is parsed as [sign] digits between
\* optional whitespace (anything else raises ValueError), and None, a list or a
\* tuple raises TypeError.
PyIntOf(x) ==
    CASE x.k = "int" -> x
      [] x.k = "float" ->
            IF x.e >= 0 THEN PyInt(x.m * Pow10(x.e))
            ELSE IF x.m >= 0 THEN PyInt(x.m \div Pow10(0 - x.e))
            ELSE PyInt(0 - ((0 - x.m) \div Pow10(0 - x.e)))
      [] x.k = "float_nan" -> Raise("ValueError")
      [] x.k = "float_inf" -> Raise("OverflowError")
      [] x.k = "str" ->
            LET s      == PyStrip(x.s)
                signed == s # <<>> /\ s[1] \in {"+", "-"}
                d      == IF signed THEN Sub(s, 2, Len(s)) ELSE s
            IN  IF d # <<>> /\ AllDigits(d)
                THEN PyInt(IF signed /\ s[1] = "-" THEN 0 - DigitsVal(d) ELSE DigitsVal(d))
                ELSE Raise("ValueError")
      [] OTHER -> Raise("TypeError")

\* str(x) for the values whose int() raises ValueError: a string is itself,
\* nan is 'nan'
PyStrOf(x) == IF x.k = "str" THEN x.s ELSE <<"n", "a", "n">>

-----------------------------------------------------------------------------
(* days_in_month(month) and data(gb, total, reset_day) *)

\* the keys of month_names, in the order of their values 1..12
month_names ==
    << <<"j","a","n">>, <<"f","e","b">>, <<"m","a","r">>, <<"a","p","r">>,
       <<"m","a","y">>, <<"j","u","n">>, <<"j","u","l">>, <<"a","u","g">>,
       <<"s","e","p">>, <<"o","c","t">>, <<"n","o","v">>, <<"d","e","c">> >>

shortmonths == {4, 6, 9, 11}

\* month_names[key], or 0 where the lookup raises KeyError
MonthNumberOfName(key) ==
    IF \E i \in 1..12 : month_names[i] = key
    THEN CHOOSE i \in 1..12 : month_names[i] = key
    ELSE 0

\* days_in_month(month): only the ValueError of int(month) is caught
days_in_month(month) ==
    LET i == PyIntOf(month)
        month_number ==
            IF i.k = "int" THEN i.n
            ELSE MonthNumberOfName(Prefix(PyLower(PyStrOf(month)), 3))
    IN  IF i.k = "raise" /\ i.exc # "ValueError" THEN i
        ELSE IF month_number \in shortmonths THEN PyInt(30)
        ELSE IF month_number = 2 THEN PyInt(28)
        ELSE PyInt(31)

\* the lines of the report, by their labels
ReportLabels ==
    <<"Cycle Usage", "Ideal Usage", "Net Usage", "Cycle Rate", "Ideal Rate",
      "Net Rate", "Use Coefficient", "Cycle Day", "Ideal Day">>

\* data(gb, total, reset_day) on the day now = (month, day): the locals
\* totalDays and cycleDay, the lines printed and how the call ends.  The
\* divisions are cycleUsage / cycleDay (line 536) and cycleRate / idealRate
\* (line 539), idealRate being zero exactly when total is; nothing is printed
\* before them.  netUsage < 0 is total * cycleDay < gb * totalDays.
data(gb, total, reset_day, now) ==
    LET totalDays == IF now.day >= reset_day
                     THEN days_in_month(PyInt(now.month)).n
                     ELSE days_in_month(PyInt(now.month - 1)).n
        cycleDay  == IF now.day >= reset_day
                     THEN now.day - (reset_day - 1)
                     ELSE now.day + totalDays - (reset_day - 1)
        locals    == [totalDays |-> totalDays, cycleDay |-> cycleDay]
    IN  IF cycleDay = 0 \/ total = 0
        THEN [loc |-> locals, stdout |-> <<>>, ret |-> Raise("ZeroDivisionError")]
        ELSE [loc |-> locals,
              stdout |-> IF total * cycleDay < gb * totalDays
                         THEN ReportLabels \o <<"Catch up">>
                         ELSE ReportLabels,
              ret |-> None]

-----------------------------------------------------------------------------
(* The inputs of the calendar calls *)

\* days_in_month is tried on the ints -MaxMonthArg..MaxMonthArg
MaxMonthArg == 14
\* data is tried with gb in 0..MaxGb, total in 0..MaxTotal and reset_day in
\* 1..MaxResetDay
MaxGb == 1
MaxTotal == 1
MaxResetDay == 31

MonthStrings ==
    { <<"J","a","n","u","a","r","y">>, <<"F","e","b","r","u","a","r","y">>,
      <<"M","a","r","c","h">>, <<"A","P","R","I","L">>, <<"m","a","y">>,
      <<"j","u","n","e">>, <<"J","u","l">>, <<"a","u","g">>,
      <<"S","e","p","t","e","m","b","e","r">>, <<"o","c","t">>,
      <<"N","O","V">>, <<"D","e","c","e","m","b","e","r">>,
      <<"j","u","n","k">>, <<"x">>, <<>>, <<"2">>, <<" ", "4", " ">>,
      <<"+", "6">>, <<"1", "3">>, <<"4", ".", "0">> }

MonthArgs ==
    { PyInt(i) : i \in (0 - MaxMonthArg)..MaxMonthArg }
        \cup { Str(s) : s \in MonthStrings }
        \cup { None, List(<<PyInt(1)>>), Float(27, -1), Float(-115, -1),
               Float(4, 0), FloatNaN, FloatInf }

\* the longest each month can be (datetime.now() can be 29 February)
CalendarDays == <<31, 29, 31, 30, 31, 30, 31, 31, 30, 31, 30, 31>>

\* what datetime.now() can answer: its month and day
Dates == { [month |-> mo, day |-> d] : mo \in 1..12, d \in 1..31 }
Nows == { n \in Dates : n.day <= CalendarDays[n.month] }

-----------------------------------------------------------------------------
(* flatten_list *)

\* isinstance(i, abc.Iterable): lists, tuples and strings are, numbers and
\* None are not
IsIterable(i) == i.k \in {"list", "tuple", "str"}

\* the items `for j in i` visits: the elements of a list or tuple, and for a
\* string its characters, each a string of length one
IterItems(i) ==
    IF i.k = "str" THEN [j \in 1..Len(i.s) |-> Str(<<i.s[j]>>)] ELSE i.items

\* the list m that one run of `for i in n:` builds (lines 431-437)
RECURSIVE FlattenOnce(_)
FlattenOnce(n) ==
    IF n = <<>> THEN <<>>
    ELSE (IF IsIterable(n[1]) THEN IterItems(n[1]) ELSE <<n[1]>>)
            \o FlattenOnce(Tail(n))

-----------------------------------------------------------------------------
(* The inputs of flatten_list *)

\* containers hold at most MaxWidth items and are nested at most MaxNest deep
MaxWidth == 2
MaxNest == 2

FlattenLeaves == { PyInt(1), PyInt(2), Str(<<"a">>), Str(<<>>) }

SeqsUpTo(S, w) == UNION { [1..k -> S] : k \in 0..w }

RECURSIVE NestedValues(_, _)
NestedValues(w, d) ==
    IF d = 0 THEN FlattenLeaves
    ELSE LET inner == NestedValues(w, d - 1)
         IN  inner \cup { List(s) : s \in SeqsUpTo(inner, w) }

\* the argument tuples x: one argument, a leaf, a list or (as heat_cp_mol
\* passes its coeff) a tuple
FlattenArgs(w, d) ==
    { <<v>> : v \in NestedValues(w, d) }
        \cup { <<Tuple(s)>> : s \in SeqsUpTo(NestedValues(w, d - 1), w) }

-----------------------------------------------------------------------------
(* The state machine: one call at a time, from the interactive session *)

Init ==
    /\ pc = "idle"
    /\ op = "none"
    /\ arg = None
    /\ spawned = <<>>
    /\ conv = None
    /\ ret = None
    /\ stdout = <<>>
    /\ loc = NoLocals

\* units(v, a, b)
CallUnits ==
    /\ pc = "idle"
    /\ \E q \in Queries, env \in OracleAnswers :
         \E r \in {Units(q.v, q.a, q.b, env)} :
             /\ arg' = [q |-> q, env |-> env, silent |-> FALSE]
             /\ spawned' = r.spawned
             /\ ret' = r.result
    /\ pc' = "done"
    /\ op' = "units"
    /\ UNCHANGED <<conv, stdout, loc>>

\* uu(v, a, b, silent)
CallUu ==
    /\ pc = "idle"
    /\ \E q \in Queries, env \in OracleAnswers, silent \in BOOLEAN :
         \E r \in {Uu(q.v, q.a, q.b, silent, env)} :
             /\ arg' = [q |-> q, env |-> env, silent |-> silent]
             /\ spawned' = r.spawned
             /\ conv' = r.conv
             /\ stdout' = r.stdout
             /\ ret' = r.ret
    /\ pc' = "done"
    /\ op' = "uu"
    /\ UNCHANGED loc

\* the call is over; the session is ready for the next one (nothing is kept)
Return ==
    /\ pc = "done"
    /\ pc' = "idle"
    /\ op' = "none"
    /\ arg' = None
    /\ spawned' = <<>>
    /\ conv' = None
    /\ ret' = None
    /\ stdout' = <<>>
    /\ loc' = NoLocals

Next == CallUnits \/ CallUu \/ Return

Spec == Init /\ [][Next]_vars

\* days_in_month(month)
CallDaysInMonth ==
    /\ pc = "idle"
    /\ \E month \in MonthArgs :
         /\ arg' = [month |-> month]
         /\ ret' = days_in_month(month)
    /\ pc' = "done"
    /\ op' = "days_in_month"
    /\ UNCHANGED <<spawned, conv, stdout, loc>>

\* data(gb, total, reset_day)
CallData ==
    /\ pc = "idle"
    /\ \E gb \in 0..MaxGb, total \in 0..MaxTotal, reset_day \in 1..MaxResetDay,
          now \in Nows :
         \E r \in {data(gb, total, reset_day, now)} :
             /\ arg' = [gb |-> gb, total |-> total, reset_day |-> reset_day, now |-> now]
             /\ loc' = r.loc
             /\ stdout' = r.stdout
             /\ ret' = r.ret
    /\ pc' = "done"
    /\ op' = "data"
    /\ UNCHANGED <<spawned, conv>>

NextCal == CallDaysInMonth \/ CallData \/ Return

SpecCal == Init /\ [][NextCal]_vars

\* flatten_list: lines 426-428, up to the first test of the while loop
CallFlatten ==
    /\ pc = "idle"
    /\ \E x \in FlattenArgs(MaxWidth, MaxNest) :
         /\ arg' = [x |-> x]
         /\ loc' = [n |-> x, is_flat |-> FALSE]
    /\ pc' = "flat_head"
    /\ op' = "flatten_list"
    /\ UNCHANGED <<spawned, conv, ret, stdout>>

\* `while not is_flat:` is entered, and `is_flat = True` (lines 429-430)
FlattenLoop ==
    /\ pc = "flat_head"
    /\ ~loc.is_flat
    /\ loc' = [loc EXCEPT !.is_flat = TRUE]
    /\ pc' = "flat_body"
    /\ UNCHANGED <<op, arg, spawned, conv, ret, stdout>>

\* the for loop and `n = m; m = []` (lines 431-439)
FlattenPass ==
    /\ pc = "flat_body"
    /\ loc' = [n |-> FlattenOnce(loc.n),
               is_flat |-> ~\E i \in 1..Len(loc.n) : IsIterable(loc.n[i])]
    /\ pc' = "flat_head"
    /\ UNCHANGED <<op, arg, spawned, conv, ret, stdout>>

\* the loop is left and n returned (line 440)
FlattenReturn ==
    /\ pc = "flat_head"
    /\ loc.is_flat
    /\ ret' = List(loc.n)
    /\ pc' = "done"
    /\ UNCHANGED <<op, arg, spawned, conv, stdout, loc>>

NextFlat == CallFlatten \/ FlattenLoop \/ FlattenPass \/ FlattenReturn \/ Return

\* a call that has started keeps running: the interpreter does not stop in the
\* middle of flatten_list
SpecFlat ==
    /\ Init /\ [][NextFlat]_vars
    /\ WF_vars(FlattenLoop) /\ WF_vars(FlattenPass) /\ WF_vars(FlattenReturn)

-----------------------------------------------------------------------------
(* The unit-conversion query: result kinds *)

\* the call that has just ended, and what its units() was answered
UnitsDone == pc = "done" /\ op = "units"
UuDone == pc = "done" /\ op = "uu"
\* the oracle started and its output was captured as text
Captured == arg.env.started /\ arg.env.err = ""
\* what units() gives for the inputs of the call that has just ended
UnitsResult == Units(arg.q.v, arg.q.a, arg.q.b, arg.env).result

IsFloat(x) == x.k = "float"
IsNonEmptyStr(x) == x.k = "str" /\ x.s # <<>>

\* ConformabilityError: ('conformability error', in_unit, out_unit)
IsConformResult(r) ==
    IsTuple(r) /\ Len(r.items) = 3 /\ r.items[1] = Str(ConformNote)
        /\ r.items[2].k = "str" /\ r.items[3].k = "str"
\* ConvertedWithReciprocalNote: (factor, reciprocal factor, note)
IsReciResult(r) ==
    IsTuple(r) /\ Len(r.items) = 3 /\ IsFloat(r.items[1]) /\ IsFloat(r.items[2])
        /\ IsNonEmptyStr(r.items[3])
\* Converted: (factor, reciprocal factor)
IsPlainResult(r) ==
    IsTuple(r) /\ Len(r.items) = 2 /\ IsFloat(r.items[1]) /\ IsFloat(r.items[2])
\* Unparseable: the raw text
IsRawResult(r) == r.k = "str"

KindsOf(r) ==
    { kd \in {"ConformabilityError", "ConvertedWithReciprocalNote", "Converted",
              "Unparseable"} :
        \/ kd = "ConformabilityError" /\ IsConformResult(r)
        \/ kd = "ConvertedWithReciprocalNote" /\ IsReciResult(r)
        \/ kd = "Converted" /\ IsPlainResult(r)
        \/ kd = "Unparseable" /\ IsRawResult(r) }

\* the shapes of the response grammar, as the pattern defines them
ConformShape(s) == TryConformability(s).matched
ReciShape(s) == \E tab \in BOOLEAN, nl \in BOOLEAN : TryConversion(s, tab, TRUE, nl).matched
PlainShape(s) == \E tab \in BOOLEAN, nl \in BOOLEAN : TryConversion(s, tab, FALSE, nl).matched

\* the kind the fixed order of the shapes gives a text
KindByOrder(s) ==
    IF ConformShape(s) THEN "ConformabilityError"
    ELSE IF ReciShape(s) THEN "ConvertedWithReciprocalNote"
    ELSE IF PlainShape(s) THEN "Converted"
    ELSE "Unparseable"

-----------------------------------------------------------------------------
(* Claims about units() and uu() *)

\* C1: for every value units() returns, uu() returns element 0 of the tuple for
\* a plain conversion or a conversion with a reciprocal note, and None for a
\* conformability error or the raw text; it never returns a string.
C1_UuReturnsFactorOrNone ==
    (UuDone /\ UnitsResult.k # "raise") =>
        /\ (IsPlainResult(UnitsResult) \/ IsReciResult(UnitsResult))
              => ret = UnitsResult.items[1] /\ IsFloat(ret)
        /\ (IsConformResult(UnitsResult) \/ IsRawResult(UnitsResult))
              => ret = None
        /\ ret.k # "str"

\* uu() was given a conformability result and returned None
C1_Witness ==
    UuDone /\ IsConformResult(conv) /\ ret = None

\* C2: units() puts every captured output into exactly one of the four result
\* kinds, the one the fixed order conformability error, reciprocal note, plain
\* conversion, raw text gives it; no text has two shapes.
C2_ExactlyOneKindInOrder ==
    (UnitsDone /\ Captured) =>
        /\ KindsOf(ret) = {KindByOrder(arg.env.text)}
        /\ ~(ConformShape(arg.env.text) /\ (ReciShape(arg.env.text) \/ PlainShape(arg.env.text)))
        /\ ~(ReciShape(arg.env.text) /\ PlainShape(arg.env.text))

\* C3: a captured output that matches none of the recognised shapes is returned
\* as a string equal to it, character for character.
C3_RawTextPreserved ==
    (UnitsDone /\ Captured /\ ~PatternMatch(arg.env.text).matched) =>
        ret = Str(arg.env.text)

\* units() was given one unrecognised line and returned it, final newline kept
C3_Witness ==
    UnitsDone /\ Captured /\ arg.env.text = <<"x", NL>> /\ ret = Str(<<"x", NL>>)

\* A line of the oracle's conformability report after its tab: a number, then
\* the units of the expansion if it has any (a dimensionless quantity has none).
IsExpansion(l) ==
    LET p == RunEnd(l, 1, NumClass)
    IN  /\ p > 1
        /\ PyFloat(Sub(l, 1, p - 1)).k = "float"
        /\ \/ p = Len(l) + 1
           \/ p < Len(l) /\ l[p] = " "

IsSuffix(u, l) == Len(u) <= Len(l) /\ Sub(l, Len(l) - Len(u) + 1, Len(l)) = u

\* the two lines after 'conformability error', without their tabs
ReportLine1(s) == Sub(s, Len(ConformNote) + 3, LineEnd(s, Len(ConformNote) + 3) - 1)
ReportLine2(s) ==
    LET q == LineEnd(s, Len(ConformNote) + 3) + 2
    IN  Sub(s, q, LineEnd(s, q) - 1)
IsConformabilityReport(s) ==
    LET p == Len(ConformNote) + 1
        e1 == LineEnd(s, p + 2)
    IN  /\ StartsWith(s, 1, ConformNote)
        /\ StartsWith(s, p, <<NL, Tab>>)
        /\ StartsWith(s, e1, <<NL, Tab>>)
        /\ IsExpansion(ReportLine1(s))
        /\ IsExpansion(ReportLine2(s))

\* C4: when the output is a conformability error followed by the two
\* tab-prefixed expansion lines, units() returns a conformability result whose
\* two unit strings are non-empty and taken verbatim from those lines, in order.
C4_ConformabilityExtracted ==
    (UnitsDone /\ Captured /\ IsConformabilityReport(arg.env.text)) =>
        /\ IsConformResult(ret)
        /\ ret.items[2].s # <<>> /\ IsSuffix(ret.items[2].s, ReportLine1(arg.env.text))
        /\ ret.items[3].s # <<>> /\ IsSuffix(ret.items[3].s, ReportLine2(arg.env.text))

\* C5: once the output is captured, units() ends with a value for every text, a
\* tuple or the raw string; no error raised while reading it escapes.
C5_InterpretationNeverRaises ==
    (UnitsDone /\ Captured) => (IsTuple(ret) \/ IsRawResult(ret))

C7_SilentOnlyAffectsDisplay ==
    UuDone =>
        /\ ret = Uu(arg.q.v, arg.q.a, arg.q.b, ~arg.silent, arg.env).ret
        /\ arg.silent => stdout = <<>>
        /\ (~arg.silent /\ UnitsResult.k # "raise") => stdout = <<UnitsResult>>

\* a call with silent false printed a conversion and returned its factor
C7_Witness ==
    UuDone /\ ~arg.silent /\ IsPlainResult(conv) /\ stdout = <<conv>>
        /\ ret = conv.items[1]

-----------------------------------------------------------------------------
(* Claims about days_in_month(), data() and flatten_list() *)

\* the calendar's months, ignoring leap years
MonthLength == <<31, 28, 31, 30, 31, 30, 31, 31, 30, 31, 30, 31>>

\* the English names of the months
MonthFullNames ==
    << <<"j","a","n","u","a","r","y">>, <<"f","e","b","r","u","a","r","y">>,
       <<"m","a","r","c","h">>, <<"a","p","r","i","l">>, <<"m","a","y">>,
       <<"j","u","n","e">>, <<"j","u","l","y">>, <<"a","u","g","u","s","t">>,
       <<"s","e","p","t","e","m","b","e","r">>, <<"o","c","t","o","b","e","r">>,
       <<"n","o","v","e","m","b","e","r">>, <<"d","e","c","e","m","b","e","r">> >>

\* x names month i: its English name or the first three letters of it, in any case
NamesMonth(x, i) ==
    x.k = "str" /\ (PyLower(x.s) = MonthFullNames[i]
                      \/ PyLower(x.s) = Prefix(MonthFullNames[i], 3))

\* x is no month at all: an int outside 1..12, None, a list, or a string that
\* is not a number and does not begin like the name of a month
NoMonth(x) ==
    \/ x.k = "int" /\ x.n \notin 1..12
    \/ x.k \in {"None", "list"}
    \/ /\ x.k = "str"
       /\ PyIntOf(x).k = "raise"
       /\ \A i \in 1..12 : Prefix(PyLower(x.s), 3) # Prefix(MonthFullNames[i], 3)

\* C8: days_in_month never raises; it returns 31 for an input that is no valid
\* month, and for a month given as an int 1..12 or by name 30 for April, June,
\* September and November, 28 for February and 31 otherwise.
C8_DaysInMonthTotal ==
    (pc = "done" /\ op = "days_in_month") =>
        /\ ret.k = "int"
        /\ NoMonth(arg.month) => ret.n = 31
        /\ \A i \in 1..12 :
              (arg.month = PyInt(i) \/ NamesMonth(arg.month, i))
                  => ret.n = MonthLength[i]

\* the month in which the billing cycle of the call's date started
CycleStartMonth ==
    IF arg.now.day >= arg.reset_day THEN arg.now.month
    ELSE IF arg.now.month = 1 THEN 12
    ELSE arg.now.month - 1

\* C10: for every date (day within the month's length) and reset_day in 1..31,
\* 1 <= cycleDay <= totalDays, totalDays being the length of the month in which
\* the cycle started, so that the division by cycleDay is defined.
C10_CycleDayInRange ==
    (pc = "done" /\ op = "data" /\ arg.reset_day \in 1..31
        /\ arg.now.day <= MonthLength[arg.now.month]) =>
        /\ loc.totalDays = MonthLength[CycleStartMonth]
        /\ 1 <= loc.cycleDay
        /\ loc.cycleDay <= loc.totalDays

\* the non-iterable leaves of a value, left to right
RECURSIVE LeavesOf(_)
RECURSIVE LeavesOfSeq(_)
LeavesOf(v) ==
    IF ~IsIterable(v) THEN <<v>>
    ELSE IF v.k = "str" THEN <<>>
    ELSE LeavesOfSeq(v.items)
LeavesOfSeq(s) ==
    IF s = <<>> THEN <<>> ELSE LeavesOf(s[1]) \o LeavesOfSeq(Tail(s))

Count(s, v) == Cardinality({ i \in 1..Len(s) : s[i] = v })

\* the result is flat and holds the non-iterable leaves of the input, each as
\* often as it occurs there
FlatWithSameLeaves ==
    /\ ret.k = "list"
    /\ \A i \in 1..Len(ret.items) : ~IsIterable(ret.items[i])
    /\ \A v \in FlattenLeaves : Count(ret.items, v) = Count(LeavesOfSeq(arg.x), v)

\* C9: for every finitely nested input, strings included, flatten_list ends and
\* returns a flat list of exactly the non-iterable leaves of the input.
C9_FlattenTerminates ==
    (op = "flatten_list" /\ pc = "flat_head")
        ~> (op = "flatten_list" /\ pc = "done" /\ FlatWithSameLeaves)

=============================================================================
